---- MODULE Spec2Model ----
(***************************************************************************)
(* User management service of create-users-mdb: the Mongoose User model    *)
(* (schema setters, validators, unique indexes, pre-save hashing), the     *)
(* controller operations over the users collection, the router mounted at  *)
(* /api/users, and the browser UserManager.                                *)
(*                                                                         *)
(* Strings are sequences of one-character strings, so that trimming,       *)
(* lowercasing, length validators and the e-mail pattern are computed.     *)
(* A password value is [text, salts]: salts = << >> is the plaintext, one  *)
(* salt is bcrypt.hash of the plaintext, two salts a hash of a hash.       *)
(* Timestamps (createdAt, updatedAt) are not modelled.                     *)
(*                                                                         *)
(* server.js mounts routes/users.js at /api/users; that router answers     *)
(* every request itself and does not call the controller functions.  Both  *)
(* are modelled: the controller as the operations over the collection      *)
(* (req), the router as what an HTTP client is answered (routeRes).        *)
(*                                                                         *)
(* Mongoose and MongoDB behaviour the handlers rely on: query filters are  *)
(* cast through the schema setters (trim, lowercase); save() validates,    *)
(* then runs the pre-save hook, then inserts or $sets the modified paths;  *)
(* a unique index rejects a clashing write with E11000; save() of a        *)
(* document that is no longer stored fails with DocumentNotFoundError;     *)
(* every store call rejects while the connection is down.  Each await on   *)
(* a store call is one atomic step; handlers interleave between them.      *)
(* ObjectIds are fresh and never reused.                                   *)
(*                                                                         *)
(* The browser is checked against any server (SpecClient) and composed     *)
(* with the controller (SpecApp), as the controller's envelopes are the    *)
(* ones UserManager reads.                                                 *)
(***************************************************************************)
EXTENDS Integers, Sequences, FiniteSets, Bags, TLC

\* server: the users collection, the next fresh ObjectId, the MongoDB
\* connection, the controller's request handlers, the router's last response
VARIABLES users, nextId, dbUp, req, routeRes

\* browser: the UserManager fields, the form inputs, the table, the notices
\* in #message-container and the fetches in flight
VARIABLES isEditing, currentUserId, form, rows, tableShown, loading,
          errorShown, notices, fetches

server == <<users, nextId, dbUp, req, routeRes>>

client == <<isEditing, currentUserId, form, rows, tableShown, loading,
            errorShown, notices, fetches>>

vars == <<server, client>>

(***************************************************************************)
(* Bounds.                                                                 *)
(***************************************************************************)
\* ObjectIds are 1..MaxId; at most MaxId documents are ever created.
MaxId == 2

\* Concurrent request handlers of the race specification.
Slots == {"r1", "r2"}

\* Salts bcrypt.genSalt may draw; the race specification draws one, as no
\* uniqueness or existence question depends on the salt.
Salts == {1, 2}

RaceSalts == {1}

(***************************************************************************)
(* Strings.                                                                *)
(***************************************************************************)
UpperChars == <<"A","B","C","D","E","F","G","H","I","J","K","L","M",
                "N","O","P","Q","R","S","T","U","V","W","X","Y","Z">>

LowerChars == <<"a","b","c","d","e","f","g","h","i","j","k","l","m",
                "n","o","p","q","r","s","t","u","v","w","x","y","z">>

Digits == {"0","1","2","3","4","5","6","7","8","9"}

Range(s) == {s[i] : i \in DOMAIN s}

\* \w of the e-mail pattern
WordChars == Range(UpperChars) \cup Range(LowerChars) \cup Digits \cup {"_"}

\* [.-] of the e-mail pattern
SepChars == {".", "-"}

WhiteSpace == {" ", "\t", "\n"}

LowerChar(c) ==
  IF c \in Range(UpperChars)
  THEN LowerChars[CHOOSE i \in DOMAIN UpperChars : UpperChars[i] = c]
  ELSE c

\* schema option lowercase: true
ToLowerCase(s) == [i \in DOMAIN s |-> LowerChar(s[i])]

RECURSIVE TrimStart(_)
TrimStart(s) ==
  IF s # << >> /\ Head(s) \in WhiteSpace THEN TrimStart(Tail(s)) ELSE s

RECURSIVE TrimEnd(_)
TrimEnd(s) ==
  IF s # << >> /\ s[Len(s)] \in WhiteSpace
  THEN TrimEnd(SubSeq(s, 1, Len(s) - 1))
  ELSE s

\* schema option trim: true
Trim(s) == TrimEnd(TrimStart(s))

\* \w+([.-]?\w+)* : word characters and single separators, beginning and
\* ending with a word character
MatchLabel(s) ==
  /\ s # << >>
  /\ \A i \in DOMAIN s : s[i] \in WordChars \cup SepChars
  /\ s[1] \in WordChars
  /\ s[Len(s)] \in WordChars
  /\ \A i \in 1..(Len(s) - 1) : ~(s[i] \in SepChars /\ s[i + 1] \in SepChars)

\* (\.\w{2,3})+
RECURSIVE MatchTld(_)
MatchTld(s) ==
  /\ Len(s) >= 3
  /\ s[1] = "."
  /\ \/ /\ s[2] \in WordChars /\ s[3] \in WordChars
        /\ (Len(s) = 3 \/ MatchTld(SubSeq(s, 4, Len(s))))
     \/ /\ Len(s) >= 4
        /\ s[2] \in WordChars /\ s[3] \in WordChars /\ s[4] \in WordChars
        /\ (Len(s) = 4 \/ MatchTld(SubSeq(s, 5, Len(s))))

\* /^\w+([.-]?\w+)*@\w+([.-]?\w+)*(\.\w{2,3})+$/
MatchEmail(s) ==
  \E i \in DOMAIN s :
    /\ s[i] = "@"
    /\ MatchLabel(SubSeq(s, 1, i - 1))
    /\ \E k \in (i + 1)..(Len(s) - 1) :
         /\ MatchLabel(SubSeq(s, i + 1, k))
         /\ MatchTld(SubSeq(s, k + 1, Len(s)))

(***************************************************************************)
(* Request values.                                                         *)
(***************************************************************************)
Empty == << >>

bob == <<"b","o","b">>
bobSp == <<" ","b","o","b">>
amy == <<"a","m","y">>
eve == <<"e","v","e">>
ab == <<"a","b">>

BOBx == <<"B","O","B","@","x",".","c","o","m">>
bobx == <<"b","o","b","@","x",".","c","o","m">>
amyx == <<"a","m","y","@","x",".","c","o","m">>
bobAt == <<"b","o","b","@","x">>

secret1 == <<"s","e","c","r","e","t","1">>
secret2 == <<"s","e","c","r","e","t","2">>
abc == <<"a","b","c">>

\* a missing JSON field and "" behave alike in every handler (both are
\* falsy and both fail `required`), so both are written Empty
Body(u, e, p) == [username |-> u, email |-> e, password |-> p]

Bodies ==
  {Body(u, e, p) : u \in {bob, bobSp, amy, Empty},
                   e \in {BOBx, bobx, amyx, Empty},
                   p \in {secret1, Empty}}
  \cup {Body(ab, amyx, secret1), Body(amy, bobAt, secret1),
        Body(amy, amyx, abc), Body(Empty, Empty, secret2),
        Body(eve, Empty, Empty)}

RaceBodies ==
  {Body(bob, BOBx, secret1), Body(amy, bobx, secret1),
   Body(bob, amyx, secret1), Body(amy, Empty, Empty),
   Body(Empty, bobx, Empty)}

Ids == 1..MaxId

(***************************************************************************)
(* models/User.js: schema setters, validators, pre-save hook.              *)
(***************************************************************************)
MinUsername == 3
MaxUsername == 30
MinPassword == 6

Plain(s) == [text |-> s, salts |-> << >>]

\* bcrypt.hash(value, salt): one-way, the salt is kept in the digest
Hash(v, salt) == [text |-> v.text, salts |-> Append(v.salts, salt)]

\* bcrypt.compare(candidate, digest): re-hash with the digest's salt
Compare(candidate, digest) ==
  /\ digest.salts # << >>
  /\ Hash(Plain(candidate), digest.salts[Len(digest.salts)]) = digest

\* length of a password value as a string; a bcrypt digest has 60 characters
PasswordLen(v) == IF v.salts = << >> THEN Len(v.text) ELSE 60

\* username: trim
SetUsername(s) == Trim(s)

\* a setter that forgets lowercase: true
SetEmailTrimOnly(s) == Trim(s)

\* email: trim, lowercase
SetEmail(s) == ToLowerCase(Trim(s))

\* username: required, minlength, maxlength
ValidUsername(u) == Len(u) > 0 /\ Len(u) >= MinUsername /\ Len(u) <= MaxUsername

\* email: required, match
ValidEmail(e) == Len(e) > 0 /\ MatchEmail(e)

\* password: required, minlength
ValidPassword(v) == PasswordLen(v) > 0 /\ PasswordLen(v) >= MinPassword

\* document validation run by save() before the pre-save hook
Validate(doc) ==
  ValidUsername(doc.username) /\ ValidEmail(doc.email) /\ ValidPassword(doc.password)

\* new User({username, email, password}): setters applied, fresh _id
NewUser(id, b) ==
  [_id |-> id, username |-> SetUsername(b.username),
   email |-> SetEmail(b.email), password |-> Plain(b.password)]

\* a hook without the isModified("password") test
PreSaveAlways(doc, passwordModified, salt) ==
  [doc EXCEPT !.password = Hash(@, salt)]

\* pre("save"): hash only when the password path is modified
PreSave(doc, passwordModified, salt) ==
  IF passwordModified THEN [doc EXCEPT !.password = Hash(@, salt)] ELSE doc

\* a collection without unique indexes
NoUniqueIndex(doc, paths) == FALSE

\* the unique indexes on username and email, checked by the store on a write
DuplicateKey(doc, paths) ==
  \E j \in DOMAIN users :
    /\ j # doc._id
    /\ \/ "username" \in paths /\ users[j].username = doc.username
       \/ "email" \in paths /\ users[j].email = doc.email

\* toObject() / select("-password") with the password key removed
Without(obj, key) == [k \in DOMAIN obj \ {key} |-> obj[k]]

(***************************************************************************)
(* Response envelopes.  A key is in the record exactly when the handler    *)
(* puts it in the JSON; data is the set of user objects returned           *)
(* (an array, {obj} for one object, {} for null or none).                  *)
(***************************************************************************)
NoRes == [status |-> 0]

NoDoc == [_id |-> 0]

Idle ==
  [op |-> "none", pc |-> "idle", id |-> 0, body |-> Body(Empty, Empty, Empty),
   doc |-> NoDoc, res |-> NoRes]

ServerError(detail) ==
  [status |-> 500, success |-> FALSE, message |-> "Server error", error |-> detail]

ValidationError ==
  [status |-> 400, success |-> FALSE, message |-> "Validation error",
   error |-> "User validation failed"]

NotFound == [status |-> 404, success |-> FALSE, message |-> "User not found"]

Finish(p, op, id, b, res) ==
  req' = [req EXCEPT ![p] =
            [op |-> op, pc |-> "done", id |-> id, body |-> b,
             doc |-> req[p].doc, res |-> res]]

Goto(p, op, pc, id, b, doc) ==
  req' = [req EXCEPT ![p] =
            [op |-> op, pc |-> pc, id |-> id, body |-> b, doc |-> doc,
             res |-> NoRes]]

(***************************************************************************)
(* Controller: read operations.                                            *)
(***************************************************************************)
GetAllUsers(p) ==
  /\ req[p].pc = "idle"
  /\ Finish(p, "getAll", 0, Idle.body,
       IF dbUp
       THEN [status |-> 200, success |-> TRUE,
             data |-> {Without(users[i], "password") : i \in DOMAIN users}]
       ELSE ServerError("connection lost"))
  /\ UNCHANGED <<users, nextId, dbUp, routeRes, client>>

GetUserById(p, id) ==
  /\ req[p].pc = "idle"
  /\ Finish(p, "getById", id, Idle.body,
       IF ~dbUp THEN ServerError("connection lost")
       ELSE IF id \notin DOMAIN users THEN NotFound
       ELSE [status |-> 200, success |-> TRUE,
             data |-> {Without(users[id], "password")}])
  /\ UNCHANGED <<users, nextId, dbUp, routeRes, client>>

(***************************************************************************)
(* Controller: createUser.                                                 *)
(***************************************************************************)
\* User.findOne({$or: [{email}, {username}]}), the filter cast by the schema
ExistingUser(b) ==
  {j \in DOMAIN users :
     \/ users[j].email = SetEmail(b.email)
     \/ users[j].username = SetUsername(b.username)}

CreatesInFlight == Cardinality({q \in DOMAIN req : req[q].op = "create" /\ req[q].pc = "save"})

CreateFindOne(p, b) ==
  /\ req[p].pc = "idle"
  /\ IF ~dbUp THEN Finish(p, "create", 0, b, ServerError("connection lost"))
     ELSE IF ExistingUser(b) # {}
     THEN Finish(p, "create", 0, b,
            [status |-> 400, success |-> FALSE,
             message |-> "User with this email or username already exists"])
     ELSE /\ nextId + CreatesInFlight <= MaxId
          /\ Goto(p, "create", "save", 0, b, NoDoc)
  /\ UNCHANGED <<users, nextId, dbUp, routeRes, client>>

CreateSave(p, S) ==
  /\ req[p].op = "create" /\ req[p].pc = "save"
  /\ LET b == req[p].body
         user == NewUser(nextId, b)
     IN IF ~Validate(user)
        THEN /\ Finish(p, "create", 0, b, ValidationError)
             /\ UNCHANGED <<users, nextId>>
        ELSE \E salt \in S :
          LET saved == PreSave(user, TRUE, salt)
          IN IF ~dbUp
             THEN /\ Finish(p, "create", 0, b, ServerError("connection lost"))
                  /\ UNCHANGED <<users, nextId>>
             ELSE IF DuplicateKey(saved, {"username", "email"})
             THEN /\ Finish(p, "create", 0, b,
                       ServerError("E11000 duplicate key error"))
                  /\ UNCHANGED <<users, nextId>>
             ELSE /\ users' = (nextId :> saved) @@ users
                  /\ nextId' = nextId + 1
                  /\ Finish(p, "create", saved._id, b,
                       [status |-> 201, success |-> TRUE,
                        message |-> "User created successfully",
                        data |-> {Without(saved, "password")}])
  /\ UNCHANGED <<dbUp, routeRes, client>>

(***************************************************************************)
(* Controller: updateUser.                                                 *)
(***************************************************************************)
UpdateFindById(p, id, b) ==
  /\ req[p].pc = "idle"
  /\ IF ~dbUp THEN Finish(p, "update", id, b, ServerError("connection lost"))
     ELSE IF id \notin DOMAIN users THEN Finish(p, "update", id, b, NotFound)
     ELSE Goto(p, "update",
               IF b.username # Empty \/ b.email # Empty THEN "findOne" ELSE "save",
               id, b, users[id])
  /\ UNCHANGED <<users, nextId, dbUp, routeRes, client>>

\* a duplicate query without _id: {$ne: userId}
DuplicateUserAnyId(id, b) ==
  {j \in DOMAIN users :
     \/ b.username # Empty /\ users[j].username = SetUsername(b.username)
     \/ b.email # Empty /\ users[j].email = SetEmail(b.email)}

\* User.findOne({_id: {$ne: userId}, $or: [...]}), the filter cast by the schema
DuplicateUser(id, b) ==
  {j \in DOMAIN users :
     /\ j # id
     /\ \/ b.username # Empty /\ users[j].username = SetUsername(b.username)
        \/ b.email # Empty /\ users[j].email = SetEmail(b.email)}

UpdateFindOne(p) ==
  /\ req[p].op = "update" /\ req[p].pc = "findOne"
  /\ LET r == req[p]
     IN IF ~dbUp
        THEN Finish(p, "update", r.id, r.body, ServerError("connection lost"))
        ELSE IF DuplicateUser(r.id, r.body) # {}
        THEN Finish(p, "update", r.id, r.body,
               [status |-> 400, success |-> FALSE,
                message |-> "Username or email already exists"])
        ELSE Goto(p, "update", "save", r.id, r.body, r.doc)
  /\ UNCHANGED <<users, nextId, dbUp, routeRes, client>>

\* an assignment without the `if (password)` test
AssignAlways(doc, b) ==
  [doc EXCEPT
     !.username = IF b.username # Empty THEN SetUsername(b.username) ELSE @,
     !.email = IF b.email # Empty THEN SetEmail(b.email) ELSE @,
     !.password = Plain(b.password)]

\* if (username) user.username = username; ... on the loaded document
Assign(doc, b) ==
  [doc EXCEPT
     !.username = IF b.username # Empty THEN SetUsername(b.username) ELSE @,
     !.email = IF b.email # Empty THEN SetEmail(b.email) ELSE @,
     !.password = IF b.password # Empty THEN Plain(b.password) ELSE @]

\* a save that treats every path as modified
ModifiedAll(old, new) == {"username", "email", "password"}

\* the modified paths, those whose value differs from the one loaded:
\* save() validates them and, after the pre-save hook, $sets them
Modified(old, new) == {k \in {"username", "email", "password"} : new[k] # old[k]}

\* a save that inserts the document when its record is gone (an upsert)
UpdateSaveUpsert(p, S) ==
  /\ req[p].op = "update" /\ req[p].pc = "save"
  /\ LET r == req[p]
         user == Assign(r.doc, r.body)
     IN IF ~Validate(user)
        THEN /\ Finish(p, "update", r.id, r.body, ValidationError)
             /\ UNCHANGED users
        ELSE \E salt \in S :
          LET saved == PreSave(user, "password" \in Modified(r.doc, user), salt)
          IN IF ~dbUp
             THEN /\ Finish(p, "update", r.id, r.body, ServerError("connection lost"))
                  /\ UNCHANGED users
             ELSE IF DuplicateKey(saved, Modified(r.doc, saved))
             THEN /\ Finish(p, "update", r.id, r.body,
                       ServerError("E11000 duplicate key error"))
                  /\ UNCHANGED users
             ELSE /\ users' = (r.id :> saved) @@ users
                  /\ Finish(p, "update", r.id, r.body,
                       [status |-> 200, success |-> TRUE,
                        message |-> "User updated successfully",
                        data |-> {Without(saved, "password")}])
  /\ UNCHANGED <<nextId, dbUp, routeRes, client>>

\* a save that writes the assigned fields before it validates them
UpdateSaveUnvalidated(p, S) ==
  /\ req[p].op = "update" /\ req[p].pc = "save"
  /\ LET r == req[p]
         user == Assign(r.doc, r.body)
     IN \E salt \in S :
          LET saved == PreSave(user, "password" \in Modified(r.doc, user), salt)
          IN IF ~dbUp
             THEN /\ Finish(p, "update", r.id, r.body, ServerError("connection lost"))
                  /\ UNCHANGED users
             ELSE IF r.id \notin DOMAIN users
             THEN /\ Finish(p, "update", r.id, r.body,
                       ServerError("No document found for query"))
                  /\ UNCHANGED users
             ELSE IF DuplicateKey(saved, Modified(r.doc, saved))
             THEN /\ Finish(p, "update", r.id, r.body,
                       ServerError("E11000 duplicate key error"))
                  /\ UNCHANGED users
             ELSE /\ users' = [users EXCEPT ![r.id] = saved]
                  /\ Finish(p, "update", r.id, r.body,
                       IF ~Validate(user) THEN ValidationError
                       ELSE [status |-> 200, success |-> TRUE,
                             message |-> "User updated successfully",
                             data |-> {Without(saved, "password")}])
  /\ UNCHANGED <<nextId, dbUp, routeRes, client>>

UpdateSave(p, S) ==
  /\ req[p].op = "update" /\ req[p].pc = "save"
  /\ LET r == req[p]
         user == Assign(r.doc, r.body)
         paths == Modified(r.doc, user)
     IN IF ~Validate(user)
        THEN /\ Finish(p, "update", r.id, r.body, ValidationError)
             /\ UNCHANGED users
        ELSE \E salt \in (IF "password" \in paths THEN S ELSE {1}) :
          LET saved == PreSave(user, "password" \in paths, salt)
          IN IF ~dbUp
             THEN /\ Finish(p, "update", r.id, r.body, ServerError("connection lost"))
                  /\ UNCHANGED users
             ELSE IF r.id \notin DOMAIN users
             THEN /\ Finish(p, "update", r.id, r.body,
                       ServerError("No document found for query"))
                  /\ UNCHANGED users
             ELSE IF DuplicateKey(saved, Modified(r.doc, saved))
             THEN /\ Finish(p, "update", r.id, r.body,
                       ServerError("E11000 duplicate key error"))
                  /\ UNCHANGED users
             ELSE /\ users' = [users EXCEPT ![r.id] =
                                 [k \in DOMAIN @ |->
                                    IF k \in Modified(r.doc, saved)
                                    THEN saved[k] ELSE @[k]]]
                  /\ Finish(p, "update", r.id, r.body,
                       [status |-> 200, success |-> TRUE,
                        message |-> "User updated successfully",
                        data |-> {Without(saved, "password")}])
  /\ UNCHANGED <<nextId, dbUp, routeRes, client>>

(***************************************************************************)
(* Controller: deleteUser.                                                 *)
(***************************************************************************)
DeleteUser(p, id) ==
  /\ req[p].pc = "idle"
  /\ IF ~dbUp
     THEN /\ Finish(p, "delete", id, Idle.body, ServerError("connection lost"))
          /\ UNCHANGED users
     ELSE IF id \notin DOMAIN users
     THEN /\ Finish(p, "delete", id, Idle.body, NotFound)
          /\ UNCHANGED users
     ELSE /\ users' = [j \in DOMAIN users \ {id} |-> users[j]]
          /\ Finish(p, "delete", id, Idle.body,
               [status |-> 200, success |-> TRUE,
                message |-> "User deleted successfully"])
  /\ UNCHANGED <<nextId, dbUp, routeRes, client>>

\* the response is sent and the handler ends
Respond(p) ==
  /\ req[p].pc = "done"
  /\ req' = [req EXCEPT ![p] = Idle]
  /\ UNCHANGED <<users, nextId, dbUp, routeRes, client>>

\* the connection to MongoDB is lost, and comes back
Disconnect ==
  /\ dbUp
  /\ dbUp' = FALSE
  /\ UNCHANGED <<users, nextId, req, routeRes, client>>

Reconnect ==
  /\ ~dbUp
  /\ dbUp' = TRUE
  /\ UNCHANGED <<users, nextId, req, routeRes, client>>

(***************************************************************************)
(* routes/users.js: the handlers of the router mounted at /api/users.      *)
(***************************************************************************)
RouteGetAll ==
  /\ routeRes' = [op |-> "getAll", id |-> 0,
                  res |-> [status |-> 200, success |-> TRUE,
                           message |-> <<"Users route working">>, data |-> {}]]
  /\ UNCHANGED <<users, nextId, dbUp, req, client>>

RoutePost(b) ==
  /\ routeRes' = [op |-> "create", id |-> 0,
                  res |-> [status |-> 200, success |-> TRUE,
                           message |-> <<"User creation endpoint">>,
                           data |-> {b}]]
  /\ UNCHANGED <<users, nextId, dbUp, req, client>>

RouteGetById(id) ==
  /\ routeRes' = [op |-> "getById", id |-> id,
                  res |-> [status |-> 200, success |-> TRUE,
                           message |-> <<"Get user with ID: ", id>>,
                           data |-> {}]]
  /\ UNCHANGED <<users, nextId, dbUp, req, client>>

RoutePut(id, b) ==
  /\ routeRes' = [op |-> "update", id |-> id,
                  res |-> [status |-> 200, success |-> TRUE,
                           message |-> <<"Update user with ID: ", id>>,
                           data |-> {b}]]
  /\ UNCHANGED <<users, nextId, dbUp, req, client>>

RouteDelete(id) ==
  /\ routeRes' = [op |-> "delete", id |-> id,
                  res |-> [status |-> 200, success |-> TRUE,
                           message |-> <<"Delete user with ID: ", id>>]]
  /\ UNCHANGED <<users, nextId, dbUp, req, client>>

(***************************************************************************)
(* public/script.js: UserManager.  currentUserId = 0 is null.  A fetch in  *)
(* flight is [kind, id, body].  Its result is a success envelope, a        *)
(* non-success envelope ("failure") or a rejected fetch / unparsable body  *)
(* ("network"); the awaiting method continues in the same turn of the      *)
(* event loop in which `await response.json()` settles, so the arrival of  *)
(* the result and the rest of the method are one step.  The server is the  *)
(* environment here.                                                       *)
(***************************************************************************)
\* fetches in flight at once
MaxFetch == 1

\* notices on screen at once: the oldest one's 5 s timer fires first
MaxNotices == 1

Fetch(kind, id, b) == [kind |-> kind, id |-> id, body |-> b]

\* what `await response.json()` may settle to
Results == {"success", "failure", "network"}

\* what the user may type into the form
Typed ==
  [username |-> {bobSp, amy, Empty}, email |-> {bobx, Empty},
   password |-> {secret1, Empty}]

\* the user objects a GET /api/users success envelope may carry
Listed ==
  {[_id |-> 1, username |-> bob, email |-> bobx],
   [_id |-> 2, username |-> amy, email |-> amyx]}

\* showMessage(message, type): appended; every notice removes itself after 5 s
ShowMessage(text, type) ==
  notices' = Append(IF Len(notices) < MaxNotices THEN notices ELSE Tail(notices),
                    [text |-> text, type |-> type])

\* setTimeout(() => messageDiv.remove(), 5000)
DismissMessage ==
  /\ notices # << >>
  /\ notices' = Tail(notices)
  /\ UNCHANGED <<server, isEditing, currentUserId, form, rows, tableShown,
                 loading, errorShown, fetches>>

\* resetForm(): form.reset()
ResetForm == form' = Body(Empty, Empty, Empty)

\* loadUsers() up to its fetch: showLoading(true), hideError()
LoadUsers(pending) ==
  /\ loading' = TRUE
  /\ errorShown' = FALSE
  /\ fetches' = pending (+) SetToBag({Fetch("load", 0, Body(Empty, Empty, Empty))})

\* the user types into one input
Input(field, value) ==
  /\ form' = [form EXCEPT ![field] = value]
  /\ UNCHANGED <<server, isEditing, currentUserId, rows, tableShown, loading,
                 errorShown, notices, fetches>>

\* handleSubmit(e) up to the fetch of createUser / updateUser
HandleSubmit ==
  /\ BagCardinality(fetches) < MaxFetch
  /\ LET userData == Body(Trim(form.username), Trim(form.email), form.password)
     IN fetches' = fetches (+) SetToBag(
          {IF isEditing THEN Fetch("update", currentUserId, userData)
                        ELSE Fetch("create", 0, userData)})
  /\ UNCHANGED <<server, isEditing, currentUserId, form, rows, tableShown,
                 loading, errorShown, notices>>

\* deleteUser(userId) from a row's button, confirmed or not
DeleteClick(row, confirmed) ==
  /\ tableShown /\ row \in rows
  /\ BagCardinality(fetches) < MaxFetch
  /\ fetches' = IF confirmed
                THEN fetches (+) SetToBag({Fetch("delete", row._id, Body(Empty, Empty, Empty))})
                ELSE fetches
  /\ UNCHANGED <<server, isEditing, currentUserId, form, rows, tableShown,
                 loading, errorShown, notices>>

\* editUser(userId, username, email) from a row's button
EditUser(row) ==
  /\ tableShown /\ row \in rows
  /\ isEditing' = TRUE
  /\ currentUserId' = row._id
  /\ form' = Body(row.username, row.email, Empty)
  /\ UNCHANGED <<server, rows, tableShown, loading, errorShown, notices, fetches>>

\* a cancelEdit() that leaves currentUserId set
CancelEditKeepsId ==
  /\ isEditing' = FALSE
  /\ UNCHANGED currentUserId
  /\ ResetForm

\* the assignments of cancelEdit()
CancelEditFields ==
  /\ isEditing' = FALSE
  /\ currentUserId' = 0
  /\ ResetForm

\* cancelEdit() from the cancel button
CancelEdit ==
  /\ CancelEditFields
  /\ UNCHANGED <<server, rows, tableShown, loading, errorShown, notices, fetches>>

\* failure branches that clear the form as the success branch does
RequestFailedReset(f, result) ==
  /\ ShowMessage("result.message", "error")
  /\ ResetForm
  /\ fetches' = fetches (-) SetToBag({f})
  /\ UNCHANGED <<isEditing, currentUserId, rows, tableShown, loading, errorShown>>

\* the else and catch branches of createUser, updateUser and deleteUser
RequestFailed(f, result) ==
  /\ ShowMessage(IF result = "network" THEN "Network error. Please try again."
                 ELSE "result.message", "error")
  /\ fetches' = fetches (-) SetToBag({f})
  /\ UNCHANGED <<isEditing, currentUserId, form, rows, tableShown, loading,
                 errorShown>>

\* createUser(userData) after its awaits
CreateUserThen(f, result) ==
  /\ BagIn(f, fetches) /\ f.kind = "create"
  /\ IF result = "success"
     THEN /\ ShowMessage("User created successfully!", "success")
          /\ ResetForm
          /\ LoadUsers(fetches (-) SetToBag({f}))
          /\ UNCHANGED <<isEditing, currentUserId, rows, tableShown>>
     ELSE RequestFailed(f, result)

CreateUserDone(f, result) == CreateUserThen(f, result) /\ UNCHANGED server

\* updateUser(userId, userData) after its awaits
UpdateUserThen(f, result) ==
  /\ BagIn(f, fetches) /\ f.kind = "update"
  /\ IF result = "success"
     THEN /\ ShowMessage("User updated successfully!", "success")
          /\ CancelEditFields
          /\ LoadUsers(fetches (-) SetToBag({f}))
          /\ UNCHANGED <<rows, tableShown>>
     ELSE RequestFailed(f, result)

UpdateUserDone(f, result) == UpdateUserThen(f, result) /\ UNCHANGED server

\* deleteUser(userId) after its awaits
DeleteUserThen(f, result) ==
  /\ BagIn(f, fetches) /\ f.kind = "delete"
  /\ IF result = "success"
     THEN /\ ShowMessage("User deleted successfully!", "success")
          /\ LoadUsers(fetches (-) SetToBag({f}))
          /\ UNCHANGED <<isEditing, currentUserId, form, rows, tableShown>>
     ELSE RequestFailed(f, result)

DeleteUserDone(f, result) == DeleteUserThen(f, result) /\ UNCHANGED server

\* loadUsers() after its awaits: displayUsers(result.data) or showError,
\* finally showLoading(false)
LoadUsersThen(f, result, data) ==
  /\ BagIn(f, fetches) /\ f.kind = "load"
  /\ IF result = "success"
     THEN /\ rows' = IF data = {} THEN rows ELSE data
          /\ tableShown' = (data # {})
          /\ UNCHANGED errorShown
     ELSE /\ errorShown' = TRUE
          /\ UNCHANGED <<rows, tableShown>>
  /\ loading' = FALSE
  /\ fetches' = fetches (-) SetToBag({f})
  /\ UNCHANGED <<isEditing, currentUserId, form, notices>>

LoadUsersDone(f, result, data) == LoadUsersThen(f, result, data) /\ UNCHANGED server

(***************************************************************************)
(* Specifications.                                                         *)
(***************************************************************************)
Init ==
  /\ users = << >>
  /\ nextId = 1
  /\ dbUp = TRUE
  /\ req = [p \in Slots |-> Idle]
  /\ routeRes = [op |-> "none", id |-> 0, res |-> NoRes]
  /\ isEditing = FALSE
  /\ currentUserId = 0
  /\ form = Body(Empty, Empty, Empty)
  /\ rows = {}
  /\ tableShown = FALSE
  /\ loading = TRUE
  /\ errorShown = FALSE
  /\ notices = << >>
  /\ fetches = SetToBag({Fetch("load", 0, Body(Empty, Empty, Empty))})

Handler(p, B, S) ==
  \/ GetAllUsers(p)
  \/ \E id \in Ids : GetUserById(p, id)
  \/ \E b \in B : CreateFindOne(p, b)
  \/ CreateSave(p, S)
  \/ \E id \in Ids, b \in B : UpdateFindById(p, id, b)
  \/ UpdateFindOne(p)
  \/ UpdateSave(p, S)
  \/ \E id \in Ids : DeleteUser(p, id)
  \/ Respond(p)

\* one request at a time
Next ==
  \/ Handler("r1", Bodies, Salts)
  \/ Disconnect
  \/ Reconnect

Spec == Init /\ [][Next]_vars

\* requests handled concurrently, interleaved at every store call
RaceNext == \E p \in Slots : Handler(p, RaceBodies, RaceSalts)

SpecRace == Init /\ [][RaceNext]_vars

\* the HTTP interface as mounted, beside the controller
HttpNext ==
  \/ Handler("r1", RaceBodies, RaceSalts)
  \/ RouteGetAll
  \/ \E b \in RaceBodies : RoutePost(b)
  \/ \E id \in Ids : RouteGetById(id)
  \/ \E id \in Ids, b \in RaceBodies : RoutePut(id, b)
  \/ \E id \in Ids : RouteDelete(id)

SpecHttp == Init /\ [][HttpNext]_vars

\* the browser client against any server
ClientNext ==
  \/ \E field \in DOMAIN Typed : \E value \in Typed[field] : Input(field, value)
  \/ HandleSubmit
  \/ \E row \in Listed, confirmed \in BOOLEAN : DeleteClick(row, confirmed)
  \/ \E row \in Listed : EditUser(row)
  \/ CancelEdit
  \/ \E f \in BagToSet(fetches), result \in Results : CreateUserDone(f, result)
  \/ \E f \in BagToSet(fetches), result \in Results : UpdateUserDone(f, result)
  \/ \E f \in BagToSet(fetches), result \in Results : DeleteUserDone(f, result)
  \/ \E f \in BagToSet(fetches), result \in Results, data \in SUBSET Listed :
       LoadUsersDone(f, result, data)
  \/ DismissMessage

SpecClient == Init /\ [][ClientNext]_vars

\* the browser client with the controller behind /api/users: a fetch in
\* flight is handled in slot r1, and the awaiting method continues with the
\* envelope the handler answered
AppTyped ==
  [username |-> {bobSp, amy}, email |-> {bobx, amyx}, password |-> {secret1}]

\* the handler that a fetch of this kind reaches
ServedBy(kind) ==
  CASE kind = "load" -> "getAll"
    [] kind = "create" -> "create"
    [] kind = "update" -> "update"
    [] kind = "delete" -> "delete"

\* slot r1 holds the exchange of fetch f
Serves(f) ==
  /\ req["r1"].op = ServedBy(f.kind)
  /\ req["r1"].body = f.body
  /\ f.kind = "create" \/ req["r1"].id = f.id

\* the request of a fetch arrives and its handler runs to its first await
AppRequest(f) ==
  /\ BagIn(f, fetches)
  /\ CASE f.kind = "load" -> GetAllUsers("r1")
       [] f.kind = "create" -> CreateFindOne("r1", f.body)
       [] f.kind = "update" -> UpdateFindById("r1", f.id, f.body)
       [] f.kind = "delete" -> DeleteUser("r1", f.id)

\* result.success of the envelope answered
AppResult == IF req["r1"].res.success THEN "success" ELSE "failure"

\* the response arrives and the awaiting method continues
AppResponse(f) ==
  /\ req["r1"].pc = "done" /\ Serves(f)
  /\ CASE f.kind = "load" ->
            LoadUsersThen(f, AppResult,
              IF req["r1"].res.success THEN req["r1"].res.data ELSE {})
       [] f.kind = "create" -> CreateUserThen(f, AppResult)
       [] f.kind = "update" -> UpdateUserThen(f, AppResult)
       [] f.kind = "delete" -> DeleteUserThen(f, AppResult)
  /\ req' = [req EXCEPT !["r1"] = Idle]
  /\ UNCHANGED <<users, nextId, dbUp, routeRes>>

AppNext ==
  \/ \E field \in DOMAIN AppTyped : \E value \in AppTyped[field] : Input(field, value)
  \/ HandleSubmit
  \/ \E row \in rows, confirmed \in BOOLEAN : DeleteClick(row, confirmed)
  \/ \E row \in rows : EditUser(row)
  \/ CancelEdit
  \/ DismissMessage
  \/ \E f \in BagToSet(fetches) : AppRequest(f)
  \/ CreateSave("r1", RaceSalts)
  \/ UpdateFindOne("r1")
  \/ UpdateSave("r1", RaceSalts)
  \/ \E f \in BagToSet(fetches) : AppResponse(f)

SpecApp == Init /\ [][AppNext]_vars

(***************************************************************************)
(* Properties.                                                             *)
(***************************************************************************)
DuplicateResponse ==
  [status |-> 400, success |-> FALSE,
   message |-> "User with this email or username already exists"]

\* the password of a response's user objects, if any is carried
NoPassword(res) ==
  "data" \in DOMAIN res =>
    \A o \in res.data : "password" \in DOMAIN o => o.password = Empty

\* C1: in every reachable state of the collection, under any interleaving of
\* create, update and delete handlers, no two stored users have the same
\* username and no two have the same e-mail after trimming and lowercasing.
C1_UniqueUsernameAndEmail ==
  \A i, j \in DOMAIN users :
    i # j => /\ users[i].username # users[j].username
             /\ ToLowerCase(Trim(users[i].email)) # ToLowerCase(Trim(users[j].email))

\* two users are stored and a racing write was turned down by a unique index
C1_Witness ==
  /\ Cardinality(DOMAIN users) = 2
  /\ \E p \in Slots :
       req[p].pc = "done" /\ req[p].res = ServerError("E11000 duplicate key error")

\* C2: of two valid creates with the same e-mail that are both answered, if
\* one succeeded the other was answered with the 400 duplicate response.
C2_RacingCreatesOneDuplicate ==
  \A p, q \in Slots :
    (/\ p # q
     /\ req[p].op = "create" /\ req[p].pc = "done"
     /\ req[q].op = "create" /\ req[q].pc = "done"
     /\ ToLowerCase(Trim(req[p].body.email)) = ToLowerCase(Trim(req[q].body.email))
     /\ Validate(NewUser(0, req[p].body))
     /\ Validate(NewUser(0, req[q].body))
     /\ req[p].res.status = 201)
    => req[q].res = DuplicateResponse

\* C3: with the store reachable, a create whose username equals a stored
\* username, or whose e-mail equals a stored e-mail after trimming and
\* lowercasing, is answered with the 400 duplicate response and stores
\* nothing; a valid create with no such clash is answered 201 and stores
\* exactly one new user, with the trimmed username and normalized e-mail.
C3_CreateOnceThenDuplicate ==
  [][LET r == req["r1"]
         t == req'["r1"]
         b == t.body
         clash == \E j \in DOMAIN users :
                    \/ users[j].username = b.username
                    \/ ToLowerCase(Trim(users[j].email)) = ToLowerCase(Trim(b.email))
     IN /\ (r.pc = "idle" /\ t.op = "create" /\ t.pc # "idle" /\ dbUp /\ clash)
             => (t.pc = "done" /\ t.res = DuplicateResponse /\ users' = users)
        /\ (r.op = "create" /\ r.pc = "save" /\ t.pc = "done" /\ dbUp /\ ~clash
              /\ ValidUsername(Trim(b.username)) /\ ValidEmail(ToLowerCase(Trim(b.email)))
              /\ Len(b.password) >= MinPassword)
             => /\ t.res.status = 201
                /\ t.id \notin DOMAIN users
                /\ DOMAIN users' = DOMAIN users \cup {t.id}
                /\ \A j \in DOMAIN users : users'[j] = users[j]
                /\ users'[t.id].username = Trim(b.username)
                /\ users'[t.id].email = ToLowerCase(Trim(b.email))
    ]_vars

\* a create with e-mail "BOB@x.com" and a fresh username was turned down
\* because "bob@x.com" is stored
C3_Witness ==
  /\ req["r1"].op = "create" /\ req["r1"].pc = "done"
  /\ req["r1"].res = DuplicateResponse
  /\ req["r1"].body.email = BOBx
  /\ \E j \in DOMAIN users : users[j].email = bobx
  /\ \A j \in DOMAIN users : users[j].username # Trim(req["r1"].body.username)

\* C4: no response of the controller or of the mounted router carries a
\* user's password.
C4_NoPasswordInAnyResponse ==
  /\ \A p \in Slots : req[p].pc = "done" => NoPassword(req[p].res)
  /\ NoPassword(routeRes.res)

\* C5: the save of an update that supplies only a username leaves the
\* user's e-mail and password hash, and every other user, as they were; with
\* the store reachable and the username valid it succeeds and stores the
\* trimmed username; if it fails it changes nothing.
C5_UsernameOnlyUpdateFrame ==
  [][LET r == req["r1"]
         t == req'["r1"]
     IN (/\ r.op = "update" /\ r.pc = "save" /\ t.pc = "done"
         /\ r.body.username # Empty /\ r.body.email = Empty
         /\ r.body.password = Empty
         /\ r.id \in DOMAIN users)
        => /\ DOMAIN users' = DOMAIN users
           /\ \A j \in DOMAIN users \ {r.id} : users'[j] = users[j]
           /\ users'[r.id]._id = r.id
           /\ users'[r.id].email = users[r.id].email
           /\ users'[r.id].password = users[r.id].password
           /\ (dbUp /\ ValidUsername(Trim(r.body.username))) => t.res.status = 200
           /\ t.res.status = 200 => users'[r.id].username = Trim(r.body.username)
           /\ t.res.status # 200 => users' = users
    ]_vars

\* a username-only update of one of two users succeeded and changed the name
C5_Witness ==
  LET r == req["r1"]
  IN /\ r.op = "update" /\ r.pc = "done" /\ r.res.status = 200
     /\ r.body.username # Empty /\ r.body.email = Empty /\ r.body.password = Empty
     /\ Cardinality(DOMAIN users) = 2
     /\ r.id \in DOMAIN users
     /\ r.doc.username # users[r.id].username
     /\ users[r.id].username = Trim(r.body.username)

\* C6: a delete of an id with no user record, by the controller or by the
\* mounted router, is answered 404 with success = false and changes nothing.
C6_DeleteMissingIsNotFound ==
  [][/\ \A p \in Slots :
          (/\ req[p].pc = "idle"
           /\ req'[p].op = "delete" /\ req'[p].pc = "done"
           /\ req'[p].id \notin DOMAIN users)
          => (req'[p].res = NotFound /\ users' = users)
     /\ (/\ routeRes' # routeRes
         /\ routeRes'.op = "delete"
         /\ routeRes'.id \notin DOMAIN users)
        => (/\ routeRes'.res.status = 404
            /\ ~routeRes'.res.success
            /\ users' = users)
    ]_vars

\* C7: a getById, by the controller or by the mounted router, of an id whose
\* user was deleted (ids are never reused: id < nextId and no record) is
\* answered 404.
C7_GetAfterDeleteIsNotFound ==
  [][/\ \A p \in Slots :
          (/\ req[p].pc = "idle"
           /\ req'[p].op = "getById" /\ req'[p].pc = "done"
           /\ req'[p].id < nextId /\ req'[p].id \notin DOMAIN users)
          => req'[p].res = NotFound
     /\ (/\ routeRes' # routeRes
         /\ routeRes'.op = "getById"
         /\ routeRes'.id < nextId /\ routeRes'.id \notin DOMAIN users)
        => routeRes'.res.status = 404
    ]_vars

\* C8: every 500 response carries the message "Server error" and no other
\* detail of the error.
C8_StoreFailureIsGeneric ==
  \A p \in Slots :
    (req[p].pc = "done" /\ req[p].res.status = 500)
      => (req[p].res.message = "Server error" /\ "error" \notin DOMAIN req[p].res)

\* C9: when createUser, updateUser or deleteUser continues with a
\* non-success envelope or a network failure, it shows an error notice,
\* starts no reload of the list, and leaves isEditing, currentUserId, the
\* form fields and the table as they were.
C9_FailureLeavesViewUnchanged ==
  [][\A f \in BagToSet(fetches), result \in {"failure", "network"} :
       (\/ CreateUserDone(f, result)
        \/ UpdateUserDone(f, result)
        \/ DeleteUserDone(f, result))
       => /\ isEditing' = isEditing
          /\ currentUserId' = currentUserId
          /\ form' = form
          /\ rows' = rows /\ tableShown' = tableShown
          /\ fetches' = fetches (-) SetToBag({f})
          /\ notices' # << >>
          /\ notices'[Len(notices')].type = "error"
    ]_vars

\* an update failed while a user was being edited: the error notice is up,
\* the edit mode and the form contents are still there, nothing is in flight
C9_Witness ==
  /\ notices = <<[text |-> "result.message", type |-> "error"]>>
  /\ isEditing /\ currentUserId = 1
  /\ form = Body(bobSp, bobx, secret1)
  /\ fetches = EmptyBag

\* C10: with the store reachable, the duplicate lookup of an update answers
\* 400 "Username or email already exists" exactly when a record with another
\* id has the supplied username or the supplied e-mail (as the schema stores
\* them); no other step of an update gives that answer; every update that
\* supplies a username or an e-mail runs the lookup; and an update that
\* re-submits the user's own username and e-mail succeeds, changing nothing.
C10_UpdateDuplicateExactly ==
  [][LET r == req["r1"]
         t == req'["r1"]
         b == t.body
         other == \E j \in DOMAIN users \ {t.id} :
                    \/ b.username # Empty /\ users[j].username = Trim(b.username)
                    \/ b.email # Empty /\ users[j].email = ToLowerCase(Trim(b.email))
         dup == /\ t.pc = "done" /\ t.res.status = 400
                /\ t.res.message = "Username or email already exists"
     IN /\ (r.op = "update" /\ r.pc = "findOne" /\ t # r /\ dbUp) => (dup <=> other)
        /\ (t.op = "update" /\ t # r /\ dup) => r.pc = "findOne"
        /\ (r.pc = "idle" /\ t.op = "update" /\ t.pc = "save")
             => (b.username = Empty /\ b.email = Empty)
        /\ (/\ r.op = "update" /\ r.pc = "save" /\ t.pc = "done" /\ dbUp
            /\ r.id \in DOMAIN users
            /\ b.password = Empty
            /\ b.username = users[r.id].username
            /\ b.email = users[r.id].email)
           => (t.res.status = 200 /\ users' = users)
    ]_vars

\* a user's own username and e-mail were re-submitted beside another user,
\* and the update succeeded
C10_Witness ==
  LET r == req["r1"]
  IN /\ r.op = "update" /\ r.pc = "done" /\ r.res.status = 200
     /\ Cardinality(DOMAIN users) = 2
     /\ r.id \in DOMAIN users
     /\ r.body.username = users[r.id].username
     /\ r.body.email = users[r.id].email

\* C11: every stored password is a digest of one bcrypt hash, never a
\* plaintext and never a hash of a hash; a stored password appears or
\* changes only in the save of a successful create or update that supplied
\* a password, and is then the hash of that plaintext; a successful update
\* that supplies no password leaves the stored password as it was.  So
\* comparePassword with the plaintext last supplied returns true.
C11_CredentialIsHashOfLatestPassword ==
  [][/\ \A i \in DOMAIN users' :
          LET v == users'[i].password
          IN /\ Len(v.salts) = 1
             /\ (i \in DOMAIN users /\ users[i].password = v)
                \/ \E p \in Slots :
                     /\ req[p].pc = "save" /\ req'[p].pc = "done"
                     /\ req'[p].res.success
                     /\ req'[p].id = i
                     /\ req'[p].body.password # Empty
                     /\ v.text = req'[p].body.password
                     /\ Compare(req'[p].body.password, v)
     /\ \A p \in Slots :
          (req[p].pc = "save" /\ req'[p].pc = "done" /\ req'[p].res.success)
          => LET i == req'[p].id
                 b == req'[p].body
             IN /\ i \in DOMAIN users'
                /\ IF b.password # Empty
                   THEN Compare(b.password, users'[i].password)
                   ELSE /\ i \in DOMAIN users
                        /\ users'[i].password = users[i].password
    ]_vars

\* a user created with one password was given another by an update, then
\* renamed by an update without a password: the second password still
\* compares true and the first does not
C11_Witness ==
  LET r == req["r1"]
  IN /\ r.op = "update" /\ r.pc = "done" /\ r.res.status = 200
     /\ r.body.password = Empty /\ r.body.username = eve
     /\ r.id \in DOMAIN users
     /\ users[r.id].username = eve
     /\ Compare(secret2, users[r.id].password)
     /\ ~Compare(secret1, users[r.id].password)

\* C12: a submit in edit mode with the password field blank sends an update
\* of the edited id whose password is the empty string; no step of the
\* handling of such an update changes any stored password; when the form
\* still holds the user's own username and e-mail the duplicate lookup lets
\* it through; and its save, the username and e-mail being valid, answers
\* 200.
C12_BlankPasswordKeepsHash ==
  [][LET r == req["r1"]
         t == req'["r1"]
         b == t.body
     IN /\ (HandleSubmit /\ isEditing /\ form.password = Empty)
            => \E f \in BagToSet(fetches') :
                 /\ fetches' = fetches (+) SetToBag({f})
                 /\ f.kind = "update" /\ f.id = currentUserId
                 /\ f.body.password = Empty
        /\ (t.op = "update" /\ t # r /\ b.password = Empty)
            => /\ DOMAIN users' = DOMAIN users
               /\ \A i \in DOMAIN users : users'[i].password = users[i].password
               /\ (/\ r.pc = "findOne"
                   /\ b.username = users[r.id].username
                   /\ b.email = users[r.id].email) => t.pc = "save"
               /\ (/\ r.pc = "save"
                   /\ ValidUsername(Trim(b.username))
                   /\ ValidEmail(ToLowerCase(Trim(b.email)))) => t.res.status = 200
    ]_vars

\* a listed user was put into the form by editUser and submitted untouched:
\* the update was answered 200 and the stored hash is the one loaded, still
\* the hash of the password the user was created with
C12_Witness ==
  LET r == req["r1"]
  IN /\ r.op = "update" /\ r.pc = "done" /\ r.res.status = 200
     /\ r.body.password = Empty
     /\ isEditing /\ currentUserId = r.id
     /\ BagIn(Fetch("update", r.id, r.body), fetches)
     /\ form = Body(r.doc.username, r.doc.email, Empty)
     /\ r.id \in DOMAIN users
     /\ users[r.id].password = r.doc.password
     /\ Compare(secret1, users[r.id].password)

\* C13: a step of a handler changes the collection only if it ends the
\* request with a success envelope; every other step (a lookup, or the end
\* of a request with the duplicate, validation, not-found or server-error
\* envelope) leaves every record as it was; and an update that ends in
\* failure leaves the record it loaded exactly as loaded.
C13_FailureLeavesStoreUnchanged ==
  [][/\ \A p \in Slots :
          (/\ req'[p] # req[p]
           /\ ~(req'[p].pc = "done" /\ req'[p].res.success))
          => users' = users
     /\ users' # users
          => \E p \in Slots :
               /\ req[p].pc \in {"idle", "save"} /\ req'[p].pc = "done"
               /\ req'[p].op \in {"create", "update", "delete"}
               /\ req'[p].res.success
     /\ LET r == req["r1"]
            t == req'["r1"]
        IN (/\ r.op = "update" /\ r.pc \in {"findOne", "save"}
            /\ t.pc = "done" /\ ~t.res.success)
           => (r.id \in DOMAIN users' /\ users'[r.id] = r.doc)
    ]_vars

\* an update of one of two users passed both lookups and was turned down by
\* validation in save(): the record is the one loaded
C13_Witness ==
  LET r == req["r1"]
  IN /\ r.op = "update" /\ r.pc = "done" /\ r.res = ValidationError
     /\ r.body.username # Empty /\ r.body.password # Empty
     /\ Cardinality(DOMAIN users) = 2
     /\ r.id \in DOMAIN users /\ users[r.id] = r.doc

\* C14: under any interleaving of handlers, a successful delete removes the
\* record of its id; an id that was given out and has no record never has
\* one again; and the save of an update whose record is gone answers without
\* success and writes nothing.
C14_DeletedRecordStaysDeleted ==
  [][/\ \A p \in Slots :
          (/\ req[p].pc = "idle"
           /\ req'[p].op = "delete" /\ req'[p].pc = "done"
           /\ req'[p].res.success)
          => req'[p].id \notin DOMAIN users'
     /\ \A i \in Ids : (i < nextId /\ i \notin DOMAIN users) => i \notin DOMAIN users'
     /\ \A p \in Slots :
          (/\ req[p].op = "update" /\ req[p].pc = "save"
           /\ req'[p].pc = "done"
           /\ req[p].id \notin DOMAIN users)
          => (~req'[p].res.success /\ users' = users)
    ]_vars

\* an update loaded a record, a delete of the same id was answered with
\* success, then the update's save was turned down: the record is gone
C14_Witness ==
  \E p, q \in Slots :
    /\ req[p].op = "update" /\ req[p].pc = "done"
    /\ req[p].res = ServerError("No document found for query")
    /\ req[p].doc._id = req[p].id
    /\ req[q].op = "delete" /\ req[q].pc = "done" /\ req[q].res.success
    /\ req[q].id = req[p].id
    /\ req[p].id \notin DOMAIN users

\* C15: in every state of the view controller isEditing is true exactly
\* when currentUserId is not null, whatever the order of editUser,
\* cancelEdit, submissions and responses; and a submission adds exactly one
\* request, built from the form as it then stands: in edit mode an update
\* addressed to currentUserId, otherwise a create.
C15_EditModeAndUpdateTarget ==
  [][/\ isEditing <=> currentUserId # 0
     /\ isEditing' <=> currentUserId' # 0
     /\ HandleSubmit
          => \E f \in BagToSet(fetches') :
               /\ fetches' = fetches (+) SetToBag({f})
               /\ f.body = Body(Trim(form.username), Trim(form.email), form.password)
               /\ IF isEditing
                  THEN f.kind = "update" /\ f.id = currentUserId
                  ELSE f.kind = "create" /\ f.id = 0
    ]_vars

\* the update submitted while user 1 was edited is still in flight,
\* addressed to 1, and the user has meanwhile started editing user 2
C15_Witness ==
  /\ isEditing /\ currentUserId = 2
  /\ form = Body(amy, amyx, Empty)
  /\ \E f \in BagToSet(fetches) : f.kind = "update" /\ f.id = 1

====
